---------------------------- MODULE Spec2Model ----------------------------
(***************************************************************************)
(* Model of src/src/lib.rs (sqlx-postgres-interval): the Interval value    *)
(* and its conversions.                                                    *)
(*                                                                         *)
(* The crate is a set of pure functions on an immutable value, so the      *)
(* state is "the last call made": which operation (op), what it was given  *)
(* (arg) and what it returned (ret).  Every action is one call.            *)
(*                                                                         *)
(* Integer widths.  TLC's integers are 32 bits wide, so the Rust widths    *)
(* are scaled: a byte takes ByteBase values instead of 256, while the byte *)
(* COUNTS stay the real ones (i64 = 8 bytes, i32 = 4 bytes).  With         *)
(* ByteBase = 4 an i64 is 16 bits wide and an i32 is 8 bits wide.  All     *)
(* range checks are written against I64_MIN/I64_MAX, so the order of the   *)
(* three thresholds the conversions depend on is the real one:             *)
(*     nanosecond count fits i64  <  microsecond count fits i64  <  range  *)
(*     of the duration type.                                               *)
(*                                                                         *)
(* Durations.  A duration of any of the three source types is represented  *)
(* by its exact total nanosecond count; the library queries used by the    *)
(* code (as_nanos, as_micros, num_nanoseconds, num_microseconds,           *)
(* whole_nanoseconds, whole_microseconds) are modelled by their documented *)
(* results on that count.                                                  *)
(***************************************************************************)
EXTENDS Integers, Sequences, FiniteSets

VARIABLES op, arg, ret

vars == <<op, arg, ret>>

---------------------------------------------------------------------------
(* Bounds of the model. *)

\* Number of values of one byte of the model (256 in the program).
ByteBase == 4

\* Half-width, in nanoseconds, of the windows of durations tried around each
\* threshold (0, the i64 limits in nanoseconds, the i64 limits in microseconds).
NsRadius == 2500

\* Half-width of the windows of field values tried around 0 and the type limits.
FieldRadius == 1

\* Longest content already in the argument buffer when encode_by_ref is called.
MaxPrefix == 1

---------------------------------------------------------------------------
(* Program constants. *)

\* mem::size_of::<i64>()
I64Bytes == 8

\* size of an i32 field (months, days)
I32Bytes == 4

\* the divisor of the precision check: nanoseconds per microsecond
NanosPerMicro == 1000

\* The two messages of lib.rs (their backquotes around INTERVAL left out).
PrecisionMsg == "PostgreSQL INTERVAL does not support nanoseconds precision"

OverflowMsg == "Overflow has occurred for PostgreSQL INTERVAL"

\* Display of std::num::TryFromIntError, the error that try_into()? boxes.
TryFromIntMsg == "out of range integral type conversion attempted"

---------------------------------------------------------------------------
(* Rust integers. *)

RECURSIVE Pow(_, _)
Pow(b, n) == IF n = 0 THEN 1 ELSE b * Pow(b, n - 1)

\* The signed integers of n bytes are the values v with
\* -(ByteBase^n \div 2) <= v <= (ByteBase^n - 1) \div 2, stored modulo ByteBase^n.
I64_MAX == (Pow(ByteBase, I64Bytes) - 1) \div 2

I64_MIN == -(Pow(ByteBase, I64Bytes) \div 2)

I32_MAX == (Pow(ByteBase, I32Bytes) - 1) \div 2

I32_MIN == -(Pow(ByteBase, I32Bytes) \div 2)

\* Rust / on signed integers: truncation toward zero.
Quot(a, b) == IF a >= 0 THEN a \div b ELSE -((-a) \div b)

\* Rust % on signed integers: the remainder has the sign of the dividend.
Rem(a, b) == a - b * Quot(a, b)

\* Result<T, E>
Ok(v) == [ok |-> TRUE, val |-> v]

Err(e) == [ok |-> FALSE, err |-> e]

\* A wrapping cast (as i64) in place of the checked narrowing.
TryIntoI64Wrapping(n) ==
    Ok(((n - I64_MIN) % Pow(ByteBase, I64Bytes)) + I64_MIN)

\* i64::try_from(u128) / i64::try_from(i128), as used by .try_into()?
TryIntoI64(n) ==
    IF I64_MIN <= n /\ n <= I64_MAX THEN Ok(n) ELSE Err(TryFromIntMsg)

\* pub struct Interval { months: i32, days: i32, microseconds: i64 }
Interval(m, d, us) == [months |-> m, days |-> d, microseconds |-> us]

---------------------------------------------------------------------------
(* The three duration types, each value given by its total nanosecond      *)
(* count, and the queries the conversions make.                            *)

\* std::time::Duration::as_nanos -> u128: the total nanoseconds, never negative.
as_nanos(value) == value.nanos

\* std::time::Duration::as_micros -> u128: the whole microseconds.
as_micros(value) == value.nanos \div NanosPerMicro

\* chrono::Duration::num_nanoseconds -> Option<i64>: None on overflow.
num_nanoseconds(value) ==
    IF I64_MIN <= value.nanos /\ value.nanos <= I64_MAX
    THEN [some |-> TRUE, val |-> value.nanos]
    ELSE [some |-> FALSE]

\* chrono::Duration::num_microseconds -> Option<i64>: the whole microseconds
\* (toward zero), None on overflow.
num_microseconds(value) ==
    LET us == Quot(value.nanos, NanosPerMicro)
    IN  IF I64_MIN <= us /\ us <= I64_MAX
        THEN [some |-> TRUE, val |-> us]
        ELSE [some |-> FALSE]

\* time::Duration::whole_nanoseconds -> i128
whole_nanoseconds(value) == value.nanos

\* time::Duration::whole_microseconds -> i128 (toward zero)
whole_microseconds(value) == Quot(value.nanos, NanosPerMicro)

---------------------------------------------------------------------------
(* impl TryFrom<...> for Interval *)

\* try_from_std without its precision check: the sub-microsecond part is cut.
try_from_std_truncating(value) ==
    LET us == TryIntoI64(as_micros(value))
    IN  IF us.ok THEN Ok(Interval(0, 0, us.val)) ELSE us

\* impl TryFrom<std::time::Duration> for Interval
try_from_std(value) ==
    IF as_nanos(value) % NanosPerMicro # 0
    THEN Err(PrecisionMsg)
    ELSE LET us == TryIntoI64(as_micros(value))
         IN  IF us.ok THEN Ok(Interval(0, 0, us.val)) ELSE us

\* try_from_chrono storing the nanosecond count in the microseconds field.
try_from_chrono_nanos(value) ==
    LET nanoseconds == num_nanoseconds(value)
    IN  IF ~nanoseconds.some
        THEN Err(OverflowMsg)
        ELSE IF Rem(nanoseconds.val, NanosPerMicro) # 0
             THEN Err(PrecisionMsg)
             ELSE Ok(Interval(0, 0, nanoseconds.val))

\* try_from_chrono checking the precision before the nanosecond overflow.
try_from_chrono_precision_first(value) ==
    IF Rem(value.nanos, NanosPerMicro) # 0
    THEN Err(PrecisionMsg)
    ELSE IF ~num_nanoseconds(value).some \/ ~num_microseconds(value).some
         THEN Err(OverflowMsg)
         ELSE Ok(Interval(0, 0, num_microseconds(value).val))

\* impl TryFrom<chrono::Duration> for Interval
try_from_chrono(value) ==
    LET nanoseconds == num_nanoseconds(value)
        checked ==
            IF ~nanoseconds.some
            THEN Err(OverflowMsg)
            ELSE IF Rem(nanoseconds.val, NanosPerMicro) # 0
                 THEN Err(PrecisionMsg)
                 ELSE Ok(<<>>)
        microseconds == num_microseconds(value)
    IN  IF ~checked.ok
        THEN checked
        ELSE IF ~microseconds.some
             THEN Err(OverflowMsg)
             ELSE Ok(Interval(0, 0, microseconds.val))

\* try_from_time narrowing the nanosecond count, not the microsecond count.
try_from_time_nanos_checked(value) ==
    IF Rem(whole_nanoseconds(value), NanosPerMicro) # 0
    THEN Err(PrecisionMsg)
    ELSE LET ns == TryIntoI64(whole_nanoseconds(value))
         IN  IF ns.ok
             THEN Ok(Interval(0, 0, Quot(ns.val, NanosPerMicro)))
             ELSE ns

\* impl TryFrom<time::Duration> for Interval
try_from_time(value) ==
    IF Rem(whole_nanoseconds(value), NanosPerMicro) # 0
    THEN Err(PrecisionMsg)
    ELSE LET us == TryIntoI64(whole_microseconds(value))
         IN  IF us.ok THEN Ok(Interval(0, 0, us.val)) ELSE us

---------------------------------------------------------------------------
(* Binary wire format: impl Encode / Decode, which build a PgInterval and  *)
(* hand it to sqlx.                                                        *)

\* iN::to_be_bytes: n bytes, most significant first, two's complement.
to_be_bytes(v, n) == [i \in 1..n |-> (v \div Pow(ByteBase, n - i)) % ByteBase]

\* Buf::get_i64 / Buf::get_i32: the big-endian signed integer of the bytes.
RECURSIVE get_uint(_)
get_uint(bytes) ==
    IF bytes = <<>>
    THEN 0
    ELSE get_uint(SubSeq(bytes, 1, Len(bytes) - 1)) * ByteBase + bytes[Len(bytes)]

get_int(bytes) ==
    LET u == get_uint(bytes)
        modulus == Pow(ByteBase, Len(bytes))
    IN  IF u > (modulus - 1) \div 2 THEN u - modulus ELSE u

\* <PgInterval as Encode>::encode_by_ref: microseconds, days, months.
PgInterval_encode_by_ref(pg, buf) ==
    [result |-> Ok("IsNull::No"),
     buf |-> buf \o to_be_bytes(pg.microseconds, I64Bytes)
                 \o to_be_bytes(pg.days, I32Bytes)
                 \o to_be_bytes(pg.months, I32Bytes)]

\* <PgInterval as Decode>::decode: only the binary format is decoded.
PgInterval_decode(value) ==
    IF value.format = "Binary"
    THEN Ok([months |-> get_int(SubSeq(value.bytes, I64Bytes + I32Bytes + 1,
                                        I64Bytes + 2 * I32Bytes)),
             days |-> get_int(SubSeq(value.bytes, I64Bytes + 1,
                                     I64Bytes + I32Bytes)),
             microseconds |-> get_int(SubSeq(value.bytes, 1, I64Bytes))])
    ELSE Err("not implemented: decode INTERVAL in text mode (unprepared queries)")

\* encode_by_ref filling the PgInterval with days and months exchanged.
encode_by_ref_swapped(self, buf) ==
    PgInterval_encode_by_ref(
        [months |-> self.days, days |-> self.months,
         microseconds |-> self.microseconds], buf)

\* impl Encode<'_, Postgres> for Interval: encode_by_ref
encode_by_ref(self, buf) ==
    LET pg_interval == [months |-> self.months, days |-> self.days,
                        microseconds |-> self.microseconds]
    IN  PgInterval_encode_by_ref(pg_interval, buf)

\* size_hint counting one i64 only.
size_hint_one_word(self) == I64Bytes

\* impl Encode<'_, Postgres> for Interval: size_hint
size_hint(self) == 2 * I64Bytes

\* impl Decode<'_, Postgres> for Interval: decode
decode(value) ==
    LET pg == PgInterval_decode(value)
    IN  IF pg.ok
        THEN Ok(Interval(pg.val.months, pg.val.days, pg.val.microseconds))
        ELSE pg

---------------------------------------------------------------------------
(* ISO 8601 text: impl Serialize / Deserialize.  The formatter and the     *)
(* parser are pg_interval's; the model holds what lib.rs hands to the      *)
(* formatter and what it makes of the parser's outcome.                    *)

\* impl Serialize for Interval: the pg_interval::Interval whose
\* to_iso_8601() string is given to the serializer.
serialize(self) ==
    [months |-> self.months, days |-> self.days,
     microseconds |-> self.microseconds]

\* pg_interval::ParseError
ParseErrorVariants ==
    {"ParseIntErr", "ParseFloatErr", "InvalidYearMonth", "InvalidTime",
     "InvalidInterval"}

\* impl Deserialize for Interval, from the outcome of from_iso(&s): every
\* variant's message becomes the custom error.
deserialize(parsed) ==
    IF parsed.ok
    THEN Ok(Interval(parsed.val.months, parsed.val.days,
                     parsed.val.microseconds))
    ELSE Err(parsed.err.msg)

---------------------------------------------------------------------------
(* Inputs. *)

Window(c, r) == (c - r)..(c + r)

\* Nanosecond counts tried: around zero, around the i64 limits taken as
\* nanoseconds, and around the i64 limits taken as microseconds.
SignedNanos ==
    Window(0, NsRadius)
    \cup Window(I64_MAX, NsRadius) \cup Window(I64_MIN, NsRadius)
    \cup Window(I64_MAX * NanosPerMicro, NsRadius)
    \cup Window(I64_MIN * NanosPerMicro, NsRadius)

\* std::time::Duration is never negative.
StdDurations == {[nanos |-> n] : n \in {m \in SignedNanos : m >= 0}}

\* chrono::Duration and time::Duration are signed; both reach beyond the
\* i64 range of microseconds.
ChronoDurations == {[nanos |-> n] : n \in SignedNanos}

TimeDurations == {[nanos |-> n] : n \in SignedNanos}

Limits(lo, hi) ==
    (Window(0, FieldRadius) \cup (lo..(lo + FieldRadius))
        \cup ((hi - FieldRadius)..hi)) \cap (lo..hi)

\* Intervals tried: every field around zero and at both ends of its type.
Intervals ==
    {Interval(m, d, us) : m \in Limits(I32_MIN, I32_MAX),
                          d \in Limits(I32_MIN, I32_MAX),
                          us \in Limits(I64_MIN, I64_MAX)}

Bytes == 0..(ByteBase - 1)

\* What the argument buffer may hold before an Interval is encoded.
Prefixes == UNION {[1..k -> Bytes] : k \in 0..MaxPrefix}

\* Messages a ParseError may carry.
ParseMessages == {"invalid digit found in string", "Invalid format."}

\* Outcomes of pg_interval::Interval::from_iso.
ParseOutcomes ==
    {Ok(x) : x \in Intervals}
    \cup {Err([variant |-> v, msg |-> m]) :
            v \in ParseErrorVariants, m \in ParseMessages}

---------------------------------------------------------------------------
(* Actions: one per call.  A call is made by a caller that holds no     *)
(* pending result (op = "idle"); Drop is the caller letting go of the      *)
(* value a call returned.                                                  *)

NoValue == <<>>

Init == op = "idle" /\ arg = NoValue /\ ret = NoValue

CallTryFromStd ==
    /\ op = "idle"
    /\ \E value \in StdDurations :
        op' = "try_from_std" /\ arg' = value /\ ret' = try_from_std(value)

CallTryFromChrono ==
    /\ op = "idle"
    /\ \E value \in ChronoDurations :
        op' = "try_from_chrono" /\ arg' = value /\ ret' = try_from_chrono(value)

CallTryFromTime ==
    /\ op = "idle"
    /\ \E value \in TimeDurations :
        op' = "try_from_time" /\ arg' = value /\ ret' = try_from_time(value)

CallEncodeByRef ==
    /\ op = "idle"
    /\ \E self \in Intervals, buf \in Prefixes :
        /\ op' = "encode_by_ref"
        /\ arg' = [self |-> self, buf |-> buf]
        /\ ret' = encode_by_ref(self, buf)

\* The bytes encode_by_ref wrote come back as a value of either format.
CallDecode ==
    /\ op = "encode_by_ref"
    /\ \E format \in {"Binary", "Text"} :
        LET value == [format |-> format,
                      bytes |-> SubSeq(ret.buf, Len(arg.buf) + 1, Len(ret.buf))]
        IN  op' = "decode" /\ arg' = value /\ ret' = decode(value)

CallSizeHint ==
    /\ op = "idle"
    /\ \E self \in Intervals :
        op' = "size_hint" /\ arg' = self /\ ret' = size_hint(self)

CallSerialize ==
    /\ op = "idle"
    /\ \E self \in Intervals :
        op' = "serialize" /\ arg' = self /\ ret' = serialize(self)

CallDeserialize ==
    /\ op = "idle"
    /\ \E parsed \in ParseOutcomes :
        op' = "deserialize" /\ arg' = parsed /\ ret' = deserialize(parsed)

Drop ==
    /\ op # "idle"
    /\ op' = "idle" /\ arg' = NoValue /\ ret' = NoValue

Next ==
    \/ CallTryFromStd
    \/ CallTryFromChrono
    \/ CallTryFromTime
    \/ CallEncodeByRef
    \/ CallDecode
    \/ CallSizeHint
    \/ CallSerialize
    \/ CallDeserialize
    \/ Drop

Spec == Init /\ [][Next]_vars

---------------------------------------------------------------------------
(* Properties. *)

IsTryFrom == op \in {"try_from_std", "try_from_chrono", "try_from_time"}

\* The duration carries a part finer than one microsecond.
SubMicro == arg.nanos % NanosPerMicro # 0

\* The duration's total microsecond count, with its sign.
TotalMicros == Quot(arg.nanos, NanosPerMicro)

MicrosFit == I64_MIN <= TotalMicros /\ TotalMicros <= I64_MAX

NanosFit == I64_MIN <= arg.nanos /\ arg.nanos <= I64_MAX

\* The errors that report an overflow: the message of the chrono conversion
\* and the out-of-range error of the checked narrowing (std, time).
OverflowErrors == {OverflowMsg, TryFromIntMsg}

\* C1 as stated: every duration of the three types with a non-zero nanosecond
\* count modulo 1000 fails with the precision error, whatever its magnitude.
C1_AlwaysPrecisionError ==
    (IsTryFrom /\ SubMicro) => ret = Err(PrecisionMsg)

\* C1, amended: a duration with a non-zero nanosecond count modulo 1000 never
\* converts (no rounding); the error is the precision error for std and time
\* durations and for chrono durations whose nanosecond count fits in i64, and
\* the overflow error for chrono durations whose nanosecond count does not.
C1_SubMicroNeverConverts ==
    (IsTryFrom /\ SubMicro) =>
        /\ ~ret.ok
        /\ (op = "try_from_chrono" /\ ~NanosFit) => ret.err = OverflowMsg
        /\ (op # "try_from_chrono" \/ NanosFit) => ret.err = PrecisionMsg

C1_Witness ==
    /\ op = "try_from_std" /\ SubMicro /\ ~MicrosFit
    /\ ret = Err(PrecisionMsg)

\* C2 as stated: every duration of the three types whose microsecond count is
\* outside the i64 range fails with the overflow error, never another kind.
C2_AlwaysOverflowError ==
    (IsTryFrom /\ ~MicrosFit) => (~ret.ok /\ ret.err \in OverflowErrors)

\* C2, amended: a duration whose microsecond count is outside the i64 range
\* never converts (no wrapped or saturated value); a chrono duration fails with
\* the overflow error, a std or time duration with the overflow (out-of-range)
\* error when its nanosecond count is a multiple of 1000 and with the precision
\* error otherwise.
C2_OutOfRangeNeverConverts ==
    (IsTryFrom /\ ~MicrosFit) =>
        /\ ~ret.ok
        /\ op = "try_from_chrono" => ret.err = OverflowMsg
        /\ (op # "try_from_chrono" /\ ~SubMicro) => ret.err = TryFromIntMsg
        /\ (op # "try_from_chrono" /\ SubMicro) => ret.err = PrecisionMsg

C2_Witness ==
    /\ op = "try_from_time" /\ ~MicrosFit /\ ~SubMicro /\ arg.nanos < 0
    /\ ret = Err(TryFromIntMsg)

\* C3: an Ok conversion has months = 0, days = 0 and microseconds equal to the
\* duration's total microsecond count with its sign, so that microseconds * 1000
\* is the nanosecond count; a zero-length duration yields Interval{0, 0, 0}.
C3_OkIsExactMicros ==
    IsTryFrom =>
        /\ ret.ok =>
            /\ ret.val.months = 0
            /\ ret.val.days = 0
            /\ ret.val.microseconds = TotalMicros
            /\ ret.val.microseconds * NanosPerMicro = arg.nanos
        /\ arg.nanos = 0 => ret = Ok(Interval(0, 0, 0))

C3_Witness ==
    /\ op = "try_from_chrono" /\ ret.ok
    /\ arg.nanos < 0 /\ ret.val.microseconds = -2

\* C9: the chrono conversion reports a nanosecond count that does not fit in i64
\* as the overflow error even when a sub-microsecond part is present, reports
\* the precision error only when the nanosecond count fits, and reports a
\* microsecond count that does not fit as the overflow error.
C9_ChronoCheckOrder ==
    op = "try_from_chrono" =>
        /\ ~NanosFit => ret = Err(OverflowMsg)
        /\ (NanosFit /\ SubMicro) => ret = Err(PrecisionMsg)
        /\ ret = Err(PrecisionMsg) => (NanosFit /\ SubMicro)
        /\ (NanosFit /\ ~SubMicro /\ ~MicrosFit) => ret = Err(OverflowMsg)

C9_Witness ==
    /\ op = "try_from_chrono" /\ ~NanosFit /\ SubMicro /\ MicrosFit
    /\ ret = Err(OverflowMsg)

\* C10 as stated: for all three types a duration converts whenever its
\* nanosecond count is a multiple of 1000 and its microsecond count fits in
\* i64, also when the nanosecond count itself exceeds 64 bits.
C10_ConvertsWheneverMicrosFit ==
    (IsTryFrom /\ ~SubMicro /\ MicrosFit) => ret.ok

\* C10, amended: a std or time duration converts exactly when its nanosecond
\* count is a multiple of 1000 and its microsecond count fits in i64, also when
\* the nanosecond count exceeds 64 bits; a chrono duration converts exactly
\* when its nanosecond count is a multiple of 1000 and itself fits in i64.
C10_ConvertsExactlyWhen ==
    /\ op \in {"try_from_std", "try_from_time"} =>
        (ret.ok <=> (~SubMicro /\ MicrosFit))
    /\ op = "try_from_chrono" => (ret.ok <=> (~SubMicro /\ NanosFit))

C10_Witness ==
    /\ op = "try_from_time" /\ ~NanosFit /\ arg.nanos < 0
    /\ ret.ok

\* The bytes encode_by_ref added to the buffer.
Written == SubSeq(ret.buf, Len(arg.buf) + 1, Len(ret.buf))

\* The unsigned number a run of bytes spells, most significant byte first.
RECURSIVE BigEndian(_)
BigEndian(bytes) ==
    IF bytes = <<>>
    THEN 0
    ELSE bytes[1] * Pow(ByteBase, Len(bytes) - 1) + BigEndian(Tail(bytes))

\* The two's complement of v in n bytes, as an unsigned number.
TwosComplement(v, n) == IF v >= 0 THEN v ELSE v + Pow(ByteBase, n)

\* C4: for every Interval x, negative and unnormalised ones included, encode
\* appends exactly 16 bytes to the buffer and the binary decode of those bytes
\* succeeds and returns x field for field.
C4_WireRoundTrip ==
    [][/\ op' = "encode_by_ref" =>
            /\ Len(ret'.buf) = Len(arg'.buf) + 16
            /\ SubSeq(ret'.buf, 1, Len(arg'.buf)) = arg'.buf
       /\ (op = "encode_by_ref" /\ op' = "decode" /\ arg'.format = "Binary") =>
            /\ arg'.bytes = Written
            /\ ret' = Ok(arg.self)]_vars

C4_Witness ==
    /\ op = "decode" /\ arg.format = "Binary" /\ ret.ok
    /\ ret.val.months = I32_MIN /\ ret.val.days = 1
    /\ ret.val.microseconds = I64_MIN

\* C5: encode never fails and writes, with no padding or length prefix, the
\* microseconds as 8 big-endian bytes, then the days as 4, then the months as
\* 4, each in two's complement; size_hint is 16 for every Interval, the number
\* of bytes written.
C5_WireLayout ==
    /\ op = "size_hint" => ret = 16
    /\ op = "encode_by_ref" =>
        /\ ret.result = Ok("IsNull::No")
        /\ SubSeq(ret.buf, 1, Len(arg.buf)) = arg.buf
        /\ Len(Written) = 16
        /\ Len(Written) = size_hint(arg.self)
        /\ \A i \in 1..Len(Written) : Written[i] \in Bytes
        /\ BigEndian(SubSeq(Written, 1, 8))
              = TwosComplement(arg.self.microseconds, 8)
        /\ BigEndian(SubSeq(Written, 9, 12)) = TwosComplement(arg.self.days, 4)
        /\ BigEndian(SubSeq(Written, 13, 16))
              = TwosComplement(arg.self.months, 4)

C5_Witness ==
    /\ op = "encode_by_ref" /\ Len(arg.buf) > 0
    /\ arg.self.microseconds < 0 /\ arg.self.days > 0 /\ arg.self.months < 0
    /\ arg.self.days # arg.self.months

---------------------------------------------------------------------------
(* The text half, as far as lib.rs decides it: what the formatter is given *)
(* and what becomes of the parser's outcome.  The strings themselves are   *)
(* pg_interval's.                                                          *)

\* The formatter is given the three fields as they are.
SerializeHandsFieldsOver ==
    op = "serialize" =>
        /\ ret.months = arg.months
        /\ ret.days = arg.days
        /\ ret.microseconds = arg.microseconds

\* A parse failure of any variant becomes an error with the variant's
\* message and no Interval; a parsed value is copied field for field.
DeserializeForwardsOutcome ==
    op = "deserialize" =>
        /\ ~arg.ok => ret = Err(arg.err.msg)
        /\ arg.ok => ret = Ok(arg.val)

===========================================================================
